---- MODULE Spec2Model ----
(***************************************************************************)
(* A model of the MySQL Connector/Python dialect of SQLAlchemy:            *)
(*   lib/sqlalchemy/dialects/mysql/json.py            (JSON path text)     *)
(*   lib/sqlalchemy/dialects/mysql/mysqlconnector.py  (dialect adaptation) *)
(*                                                                         *)
(* Text is modelled as a sequence of one-character strings, so that        *)
(* formatting and parsing are computed, character by character.            *)
(* Each component has its own specification (SpecJson, SpecDisc, SpecConn, *)
(* SpecPct, SpecVer); the variables of the other components stay idle.     *)
(***************************************************************************)
EXTENDS Integers, Sequences, FiniteSets, TLC

VARIABLES
    jsonOp, jsonIn, jsonOut,
    exc, discResult,
    url, dbapi, flagLookup, connResult,
    prepQuote, dpStored, dpAssigned, dpRead, sqlOp, sqlIn, sqlOut,
    verDbapi, memo, pc, local, reads, returned, parses

jsonVars == <<jsonOp, jsonIn, jsonOut>>
discVars == <<exc, discResult>>
connVars == <<url, dbapi, flagLookup, connResult>>
pctVars == <<prepQuote, dpStored, dpAssigned, dpRead, sqlOp, sqlIn, sqlOut>>
verVars == <<verDbapi, memo, pc, local, reads, returned, parses>>
vars == <<jsonVars, discVars, connVars, pctVars, verVars>>

\* What a step of one component leaves alone.
JsonOnly == UNCHANGED <<discVars, connVars, pctVars, verVars>>
DiscOnly == UNCHANGED <<jsonVars, connVars, pctVars, verVars>>
ConnOnly == UNCHANGED <<jsonVars, discVars, pctVars, verVars>>
PctOnly == UNCHANGED <<jsonVars, discVars, connVars, verVars>>
VerOnly == UNCHANGED <<jsonVars, discVars, connVars, pctVars>>

(***************************************************************************)
(* Bounds of the model.                                                    *)
(***************************************************************************)
MaxInt == 11
MaxKeyLen == 2
MaxPathLen == 2

(***************************************************************************)
(* Text helpers.                                                           *)
(***************************************************************************)
Digits == <<"0", "1", "2", "3", "4", "5", "6", "7", "8", "9">>

RECURSIVE NatToStr(_)
NatToStr(n) ==
    IF n < 10 THEN <<Digits[n + 1]>>
    ELSE NatToStr(n \div 10) \o <<Digits[(n % 10) + 1]>>

\* Python's str(int), which "%s" % value applies to an int.
IntToStr(i) == IF i < 0 THEN <<"-">> \o NatToStr(0 - i) ELSE NatToStr(i)

RECURSIVE SeqsUpTo(_, _)
SeqsUpTo(S, n) ==
    IF n = 0 THEN {<<>>}
    ELSE LET shorter == SeqsUpTo(S, n - 1)
         IN shorter \cup {Append(s, c) : s \in shorter, c \in S}

(***************************************************************************)
(* json.py: path steps and their formatting.                               *)
(***************************************************************************)
IntStep(i) == [t |-> "int", n |-> i, s |-> <<>>]
StrStep(k) == [t |-> "str", n |-> 0, s |-> k]

KeyChars == {"a", "\""}
Keys == SeqsUpTo(KeyChars, MaxKeyLen)
Steps == {IntStep(i) : i \in (0 - MaxInt)..MaxInt} \cup {StrStep(k) : k \in Keys}
Paths == SeqsUpTo(Steps, MaxPathLen) \ {<<>>}

\* The text "%s" % value gives for a step.
StepText(step) == IF step.t = "int" THEN IntToStr(step.n) ELSE step.s

IndexFormatNoClose(value) ==
    IF value.t = "int"
    THEN <<"$", "[">> \o StepText(value) \o <<"]">>
    ELSE <<"$", ".", "\"">> \o StepText(value)

\* JSONIndexType._format_value
IndexFormat(value) ==
    IF value.t = "int"
    THEN <<"$", "[">> \o StepText(value) \o <<"]">>
    ELSE <<"$", ".", "\"">> \o StepText(value) \o <<"\"">>

\* One element of the list comprehension of JSONPathType._format_value.
PathElem(elem) ==
    IF elem.t = "int"
    THEN <<"[">> \o StepText(elem) \o <<"]">>
    ELSE <<".", "\"">> \o StepText(elem) \o <<"\"">>

RECURSIVE Join(_)
\* "".join(list)
Join(parts) == IF parts = <<>> THEN <<>> ELSE Head(parts) \o Join(Tail(parts))

PathFormatReversed(value) ==
    <<"$">> \o Join([i \in 1..Len(value) |-> PathElem(value[Len(value) + 1 - i])])

\* JSONPathType._format_value
PathFormat(value) ==
    <<"$">> \o Join([i \in 1..Len(value) |-> PathElem(value[i])])

JsonInit ==
    /\ jsonOp = "none"
    /\ jsonIn = <<>>
    /\ jsonOut = <<>>

\* One call of JSONIndexType._format_value.
FormatIndex ==
    /\ jsonOp = "none"
    /\ \E step \in Steps :
           /\ jsonOp' = "index"
           /\ jsonIn' = <<step>>
           /\ jsonOut' = IndexFormat(step)
    /\ JsonOnly

\* One call of JSONPathType._format_value.
FormatPath ==
    /\ jsonOp = "none"
    /\ \E path \in Paths :
           /\ jsonOp' = "path"
           /\ jsonIn' = path
           /\ jsonOut' = PathFormat(path)
    /\ JsonOnly

\* The caller is done with the text; the next call starts afresh.
JsonRelease ==
    /\ jsonOp # "none"
    /\ jsonOp' = "none"
    /\ jsonIn' = <<>>
    /\ jsonOut' = <<>>
    /\ JsonOnly

(***************************************************************************)
(* mysqlconnector.py: is_disconnect and _extract_error_code.               *)
(* An exception is its class, whether it carries an errno attribute, the   *)
(* errno and the text str(e) gives.                                        *)
(***************************************************************************)
PhraseNotAvailable ==
    <<"M", "y", "S", "Q", "L", " ", "C", "o", "n", "n", "e", "c", "t", "i",
      "o", "n", " ", "n", "o", "t", " ", "a", "v", "a", "i", "l", "a", "b",
      "l", "e", ".">>

PhraseToMySQL ==
    <<"C", "o", "n", "n", "e", "c", "t", "i", "o", "n", " ", "t", "o", " ",
      "M", "y", "S", "Q", "L", " ", "i", "s", " ", "n", "o", "t", " ", "a",
      "v", "a", "i", "l", "a", "b", "l", "e">>

MsgLost ==
    <<"L", "o", "s", "t", " ", "c", "o", "n", "n", "e", "c", "t", "i", "o",
      "n">>

MsgPrefix ==
    <<"2", "0", "5", "5", ":", " ">>

MsgSuffix ==
    <<" ", "(", "c", "l", "o", "s", "e", "d", ")">>

Messages ==
    { <<>>,
      PhraseNotAvailable,
      PhraseToMySQL,
      MsgLost,
      SubSeq(PhraseNotAvailable, 1, Len(PhraseNotAvailable) - 1),
      MsgPrefix \o PhraseNotAvailable \o MsgSuffix,
      MsgPrefix \o PhraseToMySQL }

errnosWithout2048 == {2006, 2013, 2014, 2045, 2055}

\* errnos = (2006, 2013, 2014, 2045, 2055, 2048)
errnos == {2006, 2013, 2014, 2045, 2055, 2048}

\* (self.dbapi.OperationalError, self.dbapi.InterfaceError)
exceptions == {"OperationalError", "InterfaceError"}

ExcClasses == exceptions \cup {"ProgrammingError", "ValueError"}
ErrnoValues == {2006, 2013, 2014, 2045, 2055, 2048, 0 - 1, 1045, 2047, 9999}

Exceptions ==
    [cls : ExcClasses, hasErrno : {TRUE}, errno : ErrnoValues, msg : Messages]
    \cup [cls : ExcClasses, hasErrno : {FALSE}, errno : {0}, msg : Messages]

\* Python's  sub in text  on str.
Contains(sub, text) ==
    \E i \in 1..(Len(text) - Len(sub) + 1) :
        SubSeq(text, i, i + Len(sub) - 1) = sub

\* is_disconnect: the value returned, or the exception that leaves the call.
\* e.errno is evaluated before either str(e).
IsDisconnectValue(e) ==
    IF e.cls \in exceptions
    THEN IF ~e.hasErrno THEN "AttributeError"
         ELSE IF \/ e.errno \in errnos
                 \/ Contains(PhraseNotAvailable, e.msg)
                 \/ Contains(PhraseToMySQL, e.msg)
              THEN "True"
              ELSE "False"
    ELSE "False"

\* _extract_error_code: exception.errno
ExtractErrorCodeValue(e) ==
    IF e.hasErrno THEN [raised |-> "none", code |-> e.errno]
    ELSE [raised |-> "AttributeError", code |-> 0]

NoException == [cls |-> "ValueError", hasErrno |-> FALSE, errno |-> 0, msg |-> <<>>]

DiscInit ==
    /\ exc = NoException
    /\ discResult = [op |-> "none", value |-> "none", code |-> 0]

IsDisconnect ==
    /\ discResult.op = "none"
    /\ \E e \in Exceptions :
           /\ exc' = e
           /\ discResult' =
                  [op |-> "is_disconnect", value |-> IsDisconnectValue(e), code |-> 0]
    /\ DiscOnly

ExtractErrorCode ==
    /\ discResult.op = "none"
    /\ \E e \in Exceptions :
           /\ exc' = e
           /\ discResult' =
                  [op |-> "extract", value |-> ExtractErrorCodeValue(e).raised,
                   code |-> ExtractErrorCodeValue(e).code]
    /\ DiscOnly

\* The exception has been handled; the next one is classified afresh.
DiscRelease ==
    /\ discResult.op # "none"
    /\ exc' = NoException
    /\ discResult' = [op |-> "none", value |-> "none", code |-> 0]
    /\ DiscOnly

(***************************************************************************)
(* mysqlconnector.py: create_connect_args.                                 *)
(* An option value is a string (the text of a URL query value), an int or  *)
(* a bool; the three fields keep values of different types comparable.     *)
(***************************************************************************)
MaxQueryOpts == 2

\* ClientFlag.FOUND_ROWS of mysql.connector.constants
FOUND_ROWS == 2

StrV(text) == [t |-> "str", s |-> text, n |-> 0, b |-> FALSE]
IntV(i) == [t |-> "int", s |-> <<>>, n |-> i, b |-> FALSE]
BoolV(x) == [t |-> "bool", s |-> <<>>, n |-> 0, b |-> x]

EmptyOpts == [k \in {} |-> IntV(0)]

\* dict.update
Update(a, b) ==
    [k \in (DOMAIN a) \cup (DOMAIN b) |-> IF k \in DOMAIN b THEN b[k] ELSE a[k]]

\* d[key] = value
DictSet(d, key, value) ==
    [k \in (DOMAIN d) \cup {key} |-> IF k = key THEN value ELSE d[k]]

\* dict.setdefault
SetDefault(d, key, value) ==
    [k \in (DOMAIN d) \cup {key} |-> IF k \in DOMAIN d THEN d[k] ELSE value]

\* The util.coerce_kw_type calls of create_connect_args, in their order.
CoerceSchemaNoPoolSize ==
    << <<"allow_local_infile", "bool">>, <<"autocommit", "bool">>,
       <<"buffered", "bool">>, <<"client_flag", "int">>,
       <<"compress", "bool">>, <<"connection_timeout", "int">>,
       <<"connect_timeout", "int">>, <<"consume_results", "bool">>,
       <<"force_ipv6", "bool">>, <<"get_warnings", "bool">>,
       <<"pool_reset_session", "bool">>,
       <<"raise_on_warnings", "bool">>, <<"raw", "bool">>,
       <<"ssl_verify_cert", "bool">>, <<"use_pure", "bool">>,
       <<"use_unicode", "bool">> >>

CoerceSchema ==
    << <<"allow_local_infile", "bool">>, <<"autocommit", "bool">>,
       <<"buffered", "bool">>, <<"client_flag", "int">>,
       <<"compress", "bool">>, <<"connection_timeout", "int">>,
       <<"connect_timeout", "int">>, <<"consume_results", "bool">>,
       <<"force_ipv6", "bool">>, <<"get_warnings", "bool">>,
       <<"pool_reset_session", "bool">>, <<"pool_size", "int">>,
       <<"raise_on_warnings", "bool">>, <<"raw", "bool">>,
       <<"ssl_verify_cert", "bool">>, <<"use_pure", "bool">>,
       <<"use_unicode", "bool">> >>

\* The string forms the boolean coercion recognizes.
TruthyForms ==
    { <<"t", "r", "u", "e">>,
      <<"y", "e", "s">>,
      <<"o", "n">>,
      <<"y">>,
      <<"t">>,
      <<"1">> }

FalsyForms ==
    { <<"f", "a", "l", "s", "e">>,
      <<"n", "o">>,
      <<"o", "f", "f">>,
      <<"n">>,
      <<"f">>,
      <<"0">> }

DigitValue(c) == CHOOSE d \in 0..9 : Digits[d + 1] = c

IsDigit(c) == \E d \in 0..9 : Digits[d + 1] = c

RECURSIVE DigitsValue(_)
DigitsValue(text) ==
    IF text = <<>> THEN 0
    ELSE 10 * DigitsValue(SubSeq(text, 1, Len(text) - 1))
         + DigitValue(text[Len(text)])

AllDigits(text) == Len(text) > 0 /\ \A i \in 1..Len(text) : IsDigit(text[i])

\* The numeric parse of the integer coercion: an optional sign, then digits.
IntParseable(text) ==
    \/ AllDigits(text)
    \/ Len(text) > 1 /\ text[1] \in {"-", "+"} /\ AllDigits(Tail(text))

IntParse(text) ==
    IF text[1] = "-" THEN 0 - DigitsValue(Tail(text))
    ELSE IF text[1] = "+" THEN DigitsValue(Tail(text))
    ELSE DigitsValue(text)

\* util.coerce_kw_type(kw, key, type_): the map, or a failed parse.
CoerceKwType(kw, key, type) ==
    IF key \notin DOMAIN kw \/ kw[key].t = type
    THEN [ok |-> TRUE, kw |-> kw]
    ELSE IF type = "bool"
    THEN IF kw[key].t = "int"
         THEN [ok |-> TRUE, kw |-> [kw EXCEPT ![key] = BoolV(kw[key].n # 0)]]
         ELSE IF kw[key].s \in TruthyForms
         THEN [ok |-> TRUE, kw |-> [kw EXCEPT ![key] = BoolV(TRUE)]]
         ELSE IF kw[key].s \in FalsyForms
         THEN [ok |-> TRUE, kw |-> [kw EXCEPT ![key] = BoolV(FALSE)]]
         ELSE [ok |-> FALSE, kw |-> kw]
    ELSE IF kw[key].t = "bool"
         THEN [ok |-> TRUE, kw |-> [kw EXCEPT ![key] = IntV(IF kw[key].b THEN 1 ELSE 0)]]
         ELSE IF IntParseable(kw[key].s)
         THEN [ok |-> TRUE, kw |-> [kw EXCEPT ![key] = IntV(IntParse(kw[key].s))]]
         ELSE [ok |-> FALSE, kw |-> kw]

RECURSIVE CoerceFrom(_, _, _)
\* The coerce_kw_type calls from the i-th on; the first failure ends them.
CoerceFrom(schema, kw, i) ==
    IF i > Len(schema) THEN [ok |-> TRUE, kw |-> kw]
    ELSE LET step == CoerceKwType(kw, schema[i][1], schema[i][2])
         IN IF step.ok THEN CoerceFrom(schema, step.kw, i + 1) ELSE step

RECURSIVE BitOr(_, _)
\* a | b on non-negative ints
BitOr(a, b) ==
    IF a = 0 THEN b
    ELSE IF b = 0 THEN a
    ELSE (IF a % 2 = 1 \/ b % 2 = 1 THEN 1 ELSE 0)
         + 2 * BitOr(a \div 2, b \div 2)

\* url.translate_connect_args(username="user"): an unset field is left out.
TranslateConnectArgs(u) ==
    [k \in (IF u.username = <<>> THEN {} ELSE {"user"}) |-> StrV(u.username)]

MergeClientFlagsRaising(opts, d, lookup) ==
    IF d = "none" THEN [raised |-> FALSE, opts |-> opts]
    ELSE IF lookup.outcome # "ok" THEN [raised |-> TRUE, opts |-> opts]
    ELSE LET client_flags ==
                 IF "client_flags" \in DOMAIN opts THEN opts["client_flags"]
                 ELSE IntV(lookup.default)
         IN IF client_flags.t # "int" THEN [raised |-> TRUE, opts |-> opts]
            ELSE [raised |-> FALSE,
                  opts |-> DictSet(opts, "client_flags",
                               IntV(BitOr(client_flags.n, FOUND_ROWS)))]

\* Lines 146-158: the guarded merge of FOUND_ROWS into client_flags.  The
\* import, get_default() and the |= of a str each raise inside the try, and
\* except Exception: pass leaves opts as it was.
MergeClientFlags(opts, d, lookup) ==
    IF d = "none" THEN [raised |-> FALSE, opts |-> opts]
    ELSE IF lookup.outcome # "ok" THEN [raised |-> FALSE, opts |-> opts]
    ELSE LET client_flags ==
                 IF "client_flags" \in DOMAIN opts THEN opts["client_flags"]
                 ELSE IntV(lookup.default)
         IN IF client_flags.t # "int" THEN [raised |-> FALSE, opts |-> opts]
            ELSE [raised |-> FALSE,
                  opts |-> DictSet(opts, "client_flags",
                               IntV(BitOr(client_flags.n, FOUND_ROWS)))]

BufferedForced(opts) == DictSet(opts, "buffered", BoolV(TRUE))

\* opts.setdefault("buffered", True)
BufferedDefault(opts) == SetDefault(opts, "buffered", BoolV(TRUE))

\* opts = url.translate_connect_args(username="user"); opts.update(url.query)
InputOpts(u) == Update(TranslateConnectArgs(u), u.query)

\* create_connect_args: ([], opts), or the error that leaves the call.
CreateConnectArgs(u, d, lookup) ==
    LET coerced == CoerceFrom(CoerceSchema, InputOpts(u), 1)
        merged == MergeClientFlags(BufferedDefault(coerced.kw), d, lookup)
    IN IF ~coerced.ok
       THEN [status |-> "ValueError", args |-> <<>>, opts |-> EmptyOpts]
       ELSE IF merged.raised
       THEN [status |-> "Exception", args |-> <<>>, opts |-> EmptyOpts]
       ELSE [status |-> "returned", args |-> <<>>, opts |-> merged.opts]

RECURSIVE SubsetsUpTo(_, _)
SubsetsUpTo(S, n) ==
    IF n = 0 THEN {{}}
    ELSE LET smaller == SubsetsUpTo(S, n - 1)
         IN smaller \cup {s \cup {x} : s \in smaller, x \in S}

QueryKeys ==
    { "allow_local_infile", "autocommit", "buffered", "client_flag", "compress",
      "connection_timeout", "connect_timeout", "consume_results", "force_ipv6",
      "get_warnings", "pool_reset_session", "pool_size", "raise_on_warnings",
      "raw", "ssl_verify_cert", "use_pure", "use_unicode",
      "client_flags", "unknown_opt" }

RawValues ==
    { StrV(<<"t", "r", "u", "e">>), StrV(<<"0">>), StrV(<<"1", "2">>),
      StrV(<<"f", "o", "o">>) }

Queries == UNION {[D -> RawValues] : D \in SubsetsUpTo(QueryKeys, MaxQueryOpts)}

Usernames == {<<>>, <<"s", "c", "o", "t", "t">>}
Urls == [username : Usernames, query : Queries]

FlagDefaults == {1, 5}
Lookups ==
    [outcome : {"ok"}, default : FlagDefaults]
    \cup [outcome : {"ImportError", "AttributeError"}, default : {0}]

NoUrl == [username |-> <<>>, query |-> EmptyOpts]
NoLookup == [outcome |-> "ok", default |-> 0]
NoResult == [status |-> "none", args |-> <<>>, opts |-> EmptyOpts]

\* The dialect is built with its driver module, or with none.
ConnInit ==
    /\ url = NoUrl
    /\ dbapi \in {"none", "loaded"}
    /\ flagLookup = NoLookup
    /\ connResult = NoResult

CreateConnectArgsCall ==
    /\ connResult.status = "none"
    /\ \E u \in Urls, lookup \in Lookups :
           /\ url' = u
           /\ flagLookup' = lookup
           /\ connResult' = CreateConnectArgs(u, dbapi, lookup)
    /\ UNCHANGED dbapi
    /\ ConnOnly

\* The connect attempt is over; the next one starts from its own URL.
ConnRelease ==
    /\ connResult.status # "none"
    /\ url' = NoUrl
    /\ flagLookup' = NoLookup
    /\ connResult' = NoResult
    /\ UNCHANGED dbapi
    /\ ConnOnly

(***************************************************************************)
(* mysqlconnector.py: MySQLIdentifierPreparer_mysqlconnector and           *)
(* MySQLCompiler_mysqlconnector.visit_mod_binary.                          *)
(***************************************************************************)
MaxIdentLen == 2

\* The _double_percents property: the getter.
DoublePercentsOfParamstyle(stored) == "True"

DoublePercentsGet(stored) == "False"

\* The _double_percents property: the setter, which stores nothing.
DoublePercentsSet(stored, value) == stored

RECURSIVE Replace(_, _, _)
\* str.replace(old, new), old not empty: left to right, without overlap.
Replace(text, old, new) ==
    IF Len(text) < Len(old) THEN text
    ELSE IF SubSeq(text, 1, Len(old)) = old
    THEN new \o Replace(SubSeq(text, Len(old) + 1, Len(text)), old, new)
    ELSE <<Head(text)>> \o Replace(Tail(text), old, new)

\* self.escape_quote and self.escape_to_quote of a preparer whose quote
\* character is q.
EscapeQuote(q) == <<q>>
EscapeToQuote(q) == <<q, q>>

\* _escape_identifier
EscapeIdentifierValue(value, q) == Replace(value, EscapeQuote(q), EscapeToQuote(q))

\* visit_mod_binary, on the texts self.process gives for the two operands.
VisitModBinaryValue(left, right) == left \o <<" ", "%", " ">> \o right

\* The grave accent, MySQL's identifier quote: the one character a string of
\* this notation cannot hold, so it is written as a token.
Backtick == "GRAVE"

QuoteChars == {Backtick, "\""}
IdentChars == {"a", "%", Backtick, "\""}
Idents == SeqsUpTo(IdentChars, MaxIdentLen)
Operands == {<<"x">>, <<"y">>, <<"%", "s">>, <<"a", " ", "%", " ", "b">>}

PctInit ==
    /\ prepQuote \in QuoteChars
    /\ dpStored = "unset"
    /\ dpAssigned = "none"
    /\ dpRead = "none"
    /\ sqlOp = "none"
    /\ sqlIn = <<>>
    /\ sqlOut = <<>>

AssignDoublePercents ==
    \E value \in {"True", "False"} :
        /\ dpAssigned' = value
        /\ dpStored' = DoublePercentsSet(dpStored, value)
        /\ UNCHANGED <<prepQuote, dpRead, sqlOp, sqlIn, sqlOut>>
        /\ PctOnly

ReadDoublePercents ==
    /\ dpRead' = DoublePercentsGet(dpStored)
    /\ UNCHANGED <<prepQuote, dpStored, dpAssigned, sqlOp, sqlIn, sqlOut>>
    /\ PctOnly

EscapeIdentifier ==
    /\ sqlOp = "none"
    /\ \E value \in Idents :
           /\ sqlOp' = "escape"
           /\ sqlIn' = <<value>>
           /\ sqlOut' = EscapeIdentifierValue(value, prepQuote)
    /\ UNCHANGED <<prepQuote, dpStored, dpAssigned, dpRead>>
    /\ PctOnly

VisitModBinary ==
    /\ sqlOp = "none"
    /\ \E left \in Operands, right \in Operands :
           /\ sqlOp' = "mod"
           /\ sqlIn' = <<left, right>>
           /\ sqlOut' = VisitModBinaryValue(left, right)
    /\ UNCHANGED <<prepQuote, dpStored, dpAssigned, dpRead>>
    /\ PctOnly

\* The fragment has gone into the statement; the next one starts afresh.
SqlRelease ==
    /\ sqlOp # "none"
    /\ sqlOp' = "none"
    /\ sqlIn' = <<>>
    /\ sqlOut' = <<>>
    /\ UNCHANGED <<prepQuote, dpStored, dpAssigned, dpRead>>
    /\ PctOnly

(***************************************************************************)
(* mysqlconnector.py: _mysqlconnector_version_info, a memoized property    *)
(* read by several threads without a lock.                                 *)
(***************************************************************************)
NumThreads == 2
MaxReads == 2

Threads == 1..NumThreads

NoneValue == [some |-> FALSE, tuple |-> <<>>]

RECURSIVE RunEnd(_, _)
\* The index of the last character of the run of digits that starts at i
\* (i - 1 when text[i] is no digit): what \d+ consumes.
RunEnd(text, i) ==
    IF i <= Len(text) /\ IsDigit(text[i]) THEN RunEnd(text, i + 1) ELSE i - 1

\* re.match(r"(\d+)\.(\d+)(?:\.(\d+))?", text): the groups, an unmatched
\* third group being the empty text.
VersionMatch(text) ==
    LET e1 == RunEnd(text, 1)
        e2 == RunEnd(text, e1 + 2)
        e3 == RunEnd(text, e2 + 2)
    IN IF e1 >= 1 /\ e1 + 1 <= Len(text) /\ text[e1 + 1] = "." /\ e2 >= e1 + 2
       THEN [matched |-> TRUE,
             g1 |-> SubSeq(text, 1, e1),
             g2 |-> SubSeq(text, e1 + 2, e2),
             g3 |-> IF e2 + 1 <= Len(text) /\ text[e2 + 1] = "." /\ e3 >= e2 + 2
                    THEN SubSeq(text, e2 + 2, e3)
                    ELSE <<>>]
       ELSE [matched |-> FALSE, g1 |-> <<>>, g2 |-> <<>>, g3 |-> <<>>]

VersionInfoKeepNone(d) ==
    IF d.present /\ d.hasVersion /\ VersionMatch(d.version).matched
    THEN LET m == VersionMatch(d.version)
         IN [some |-> TRUE,
             tuple |-> <<DigitsValue(m.g1), DigitsValue(m.g2)>>
                       \o (IF m.g3 = <<>> THEN <<0 - 1>> ELSE <<DigitsValue(m.g3)>>)]
    ELSE NoneValue

\* The body of _mysqlconnector_version_info.
VersionInfo(d) ==
    IF d.present /\ d.hasVersion /\ VersionMatch(d.version).matched
    THEN LET m == VersionMatch(d.version)
         IN [some |-> TRUE,
             tuple |-> <<DigitsValue(m.g1), DigitsValue(m.g2)>>
                       \o (IF m.g3 = <<>> THEN <<>> ELSE <<DigitsValue(m.g3)>>)]
    ELSE NoneValue

Versions ==
    { <<"8", ".", "0", ".", "3", "3">>,
      <<"8", ".", "0">>,
      <<"1", "0", ".", "2", ".", "5", "r", "c">>,
      <<"2", ".", "1", "a">>,
      <<"8", ".", "0", ".">>,
      <<"9">>,
      <<"x", ".", "1">>,
      <<>> }

Dbapis ==
    [present : {TRUE}, hasVersion : {TRUE}, version : Versions]
    \cup {[present |-> TRUE, hasVersion |-> FALSE, version |-> <<>>],
          [present |-> FALSE, hasVersion |-> FALSE, version |-> <<>>]}

VerInit ==
    /\ verDbapi \in Dbapis
    /\ memo = [set |-> FALSE, value |-> NoneValue]
    /\ pc = [t \in Threads |-> "idle"]
    /\ local = [t \in Threads |-> NoneValue]
    /\ reads = [t \in Threads |-> 0]
    /\ returned = {}
    /\ parses = 0

\* The attribute lookup: the instance's __dict__ first, then the descriptor.
BeginRead(t) ==
    /\ pc[t] = "idle"
    /\ reads[t] < MaxReads
    /\ IF memo.set
       THEN /\ returned' = returned \cup {memo.value}
            /\ reads' = [reads EXCEPT ![t] = @ + 1]
            /\ pc' = pc
       ELSE /\ pc' = [pc EXCEPT ![t] = "compute"]
            /\ UNCHANGED <<returned, reads>>
    /\ UNCHANGED <<verDbapi, memo, local, parses>>
    /\ VerOnly

\* memoized_property.__get__: result = self.fget(obj)
Compute(t) ==
    /\ pc[t] = "compute"
    /\ local' = [local EXCEPT ![t] = VersionInfo(verDbapi)]
    /\ parses' = parses + 1
    /\ pc' = [pc EXCEPT ![t] = "store"]
    /\ UNCHANGED <<verDbapi, memo, reads, returned>>
    /\ VerOnly

\* memoized_property.__get__: obj.__dict__[self.__name__] = result
Store(t) ==
    /\ pc[t] = "store"
    /\ memo' = [set |-> TRUE, value |-> local[t]]
    /\ pc' = [pc EXCEPT ![t] = "return"]
    /\ UNCHANGED <<verDbapi, local, reads, returned, parses>>
    /\ VerOnly

\* memoized_property.__get__: return result
Return(t) ==
    /\ pc[t] = "return"
    /\ returned' = returned \cup {local[t]}
    /\ reads' = [reads EXCEPT ![t] = @ + 1]
    /\ pc' = [pc EXCEPT ![t] = "idle"]
    /\ UNCHANGED <<verDbapi, memo, local, parses>>
    /\ VerOnly

(***************************************************************************)
(* The specifications, one per component.                                  *)
(***************************************************************************)
\* The components a specification leaves idle.
JsonIdle == JsonInit
DiscIdle == DiscInit
ConnIdle == ConnInit /\ dbapi = "none"
PctIdle == PctInit /\ prepQuote = Backtick
VerIdle == VerInit /\ ~verDbapi.present

InitJson == JsonInit /\ DiscIdle /\ ConnIdle /\ PctIdle /\ VerIdle
NextJson == FormatIndex \/ FormatPath \/ JsonRelease
SpecJson == InitJson /\ [][NextJson]_vars

InitDisc == JsonIdle /\ DiscInit /\ ConnIdle /\ PctIdle /\ VerIdle
NextDisc == IsDisconnect \/ ExtractErrorCode \/ DiscRelease
SpecDisc == InitDisc /\ [][NextDisc]_vars

InitConn == JsonIdle /\ DiscIdle /\ ConnInit /\ PctIdle /\ VerIdle
NextConn == CreateConnectArgsCall \/ ConnRelease
SpecConn == InitConn /\ [][NextConn]_vars

InitPct == JsonIdle /\ DiscIdle /\ ConnIdle /\ PctInit /\ VerIdle
NextPct ==
    \/ AssignDoublePercents
    \/ ReadDoublePercents
    \/ EscapeIdentifier
    \/ VisitModBinary
    \/ SqlRelease
SpecPct == InitPct /\ [][NextPct]_vars

InitVer == JsonIdle /\ DiscIdle /\ ConnIdle /\ PctIdle /\ VerInit
NextVer == \E t \in Threads : BeginRead(t) \/ Compute(t) \/ Store(t) \/ Return(t)
SpecVer == InitVer /\ [][NextVer]_vars

(***************************************************************************)
(* The claims.                                                             *)
(***************************************************************************)

\* text is the decimal numeral of i: an optional minus sign, then digits
\* with no leading zero, whose value is the magnitude of i.
IsDecimalOf(text, i) ==
    LET body == IF i < 0 THEN Tail(text) ELSE text
    IN /\ Len(text) > 0
       /\ (i < 0) => text[1] = "-"
       /\ AllDigits(body)
       /\ Len(body) > 1 => body[1] # "0"
       /\ DigitsValue(body) = (IF i < 0 THEN 0 - i ELSE i)

\* C1: JSONIndexType._format_value gives, for an integer i, exactly the
\* text $[i] (i in decimal), and for a string k holding no double quote
\* exactly $."k": '$', '.', '"', the characters of k, '"'.
C1_IndexFormatExact ==
    jsonOp = "index" =>
        LET v == jsonIn[1]
            n == Len(jsonOut)
        IN IF v.t = "int"
           THEN /\ n >= 4
                /\ jsonOut[1] = "$"
                /\ jsonOut[2] = "["
                /\ jsonOut[n] = "]"
                /\ IsDecimalOf(SubSeq(jsonOut, 3, n - 1), v.n)
           ELSE (\A i \in 1..Len(v.s) : v.s[i] # "\"") =>
                /\ n = Len(v.s) + 4
                /\ SubSeq(jsonOut, 1, 3) = <<"$", ".", "\"">>
                /\ SubSeq(jsonOut, 4, n - 1) = v.s
                /\ jsonOut[n] = "\""

C1_Witness ==
    /\ jsonOp = "index"
    /\ jsonIn = <<IntStep(0 - 10)>>
    /\ jsonOut = <<"$", "[", "-", "1", "0", "]">>

\* C2: JSONPathType._format_value on a non-empty path gives one '$', then
\* one fragment per step in the order of the path and nothing between them,
\* the fragment of a step being the single-step text without its '$'
\* ([i] for an integer, ."k" for a string); a path of one step gives the
\* text JSONIndexType._format_value gives for that step.
C2_PathFormatConcat ==
    jsonOp = "path" =>
        /\ jsonOut[1] = "$"
        /\ jsonOut[2] \in {"[", "."}
        /\ Tail(jsonOut) =
               Join([i \in 1..Len(jsonIn) |-> Tail(IndexFormat(jsonIn[i]))])
        /\ Len(jsonIn) = 1 => jsonOut = IndexFormat(jsonIn[1])

C2_Witness ==
    /\ jsonOp = "path"
    /\ jsonIn = <<StrStep(<<"a">>), IntStep(7)>>
    /\ jsonOut = <<"$", ".", "\"", "a", "\"", "[", "7", "]">>

KnownFatalCodes == {2006, 2013, 2014, 2045, 2055, 2048}

\* phrase occurs in text, position by position.
HasPhrase(phrase, text) ==
    \E off \in 0..(Len(text) - Len(phrase)) :
        \A j \in 1..Len(phrase) : text[off + j] = phrase[j]

C4_NeverRaises ==
    discResult.op = "is_disconnect" =>
        /\ discResult.value \in {"True", "False"}
        /\ ~exc.hasErrno => discResult.value = "False"

DeclaredBoolKeys ==
    { "allow_local_infile", "autocommit", "buffered", "compress",
      "consume_results", "force_ipv6", "get_warnings", "pool_reset_session",
      "raise_on_warnings", "raw", "ssl_verify_cert", "use_pure", "use_unicode" }

DeclaredIntKeys ==
    { "client_flag", "connection_timeout", "connect_timeout", "pool_size" }

DeclaredKeys == DeclaredBoolKeys \cup DeclaredIntKeys

\* The value of a declared key can be read as its declared type.
ParseableAs(key, v) ==
    IF key \in DeclaredBoolKeys
    THEN v.t = "bool" \/ (v.t = "str" /\ v.s \in TruthyForms \cup FalsyForms)
    ELSE v.t = "int" \/ (v.t = "str" /\ IntParseable(v.s))

AllParseable(opts) ==
    \A k \in (DOMAIN opts) \cap DeclaredKeys : ParseableAs(k, opts[k])

\* C5: for an input option map whose declared keys all hold parseable
\* values, create_connect_args returns an empty positional list and a map
\* in which each declared key that is present holds a value of its declared
\* type (an integer key the number its text spells, a boolean key the truth
\* value its text names), every undeclared key of the input keeps its
\* value, a declared key absent from the input is absent from the output,
\* except buffered, which is True when the input had none.
C5_CoercedOptions ==
    (connResult.status # "none" /\ AllParseable(InputOpts(url))) =>
        LET in == InputOpts(url)
            out == connResult.opts
        IN /\ connResult.status = "returned"
           /\ connResult.args = <<>>
           /\ \A k \in (DOMAIN out) \cap DeclaredBoolKeys : out[k].t = "bool"
           /\ \A k \in (DOMAIN out) \cap DeclaredIntKeys : out[k].t = "int"
           /\ \A k \in (DOMAIN in) \cap DeclaredIntKeys :
                  k \in DOMAIN out /\ IntToStr(out[k].n) = in[k].s
           /\ \A k \in (DOMAIN in) \cap DeclaredBoolKeys :
                  k \in DOMAIN out /\ out[k].b = (in[k].s \in TruthyForms)
           /\ \A k \in (DOMAIN in) \ DeclaredKeys :
                  k \in DOMAIN out /\ out[k] = in[k]
           /\ \A k \in DeclaredKeys \ {"buffered"} :
                  k \notin DOMAIN in => k \notin DOMAIN out
           /\ "buffered" \in DOMAIN out
           /\ "buffered" \notin DOMAIN in => out["buffered"] = BoolV(TRUE)

C5_Witness ==
    /\ connResult.status = "returned"
    /\ connResult.args = <<>>
    /\ DOMAIN url.query = {"autocommit", "pool_size"}
    /\ url.query["autocommit"] = StrV(<<"t", "r", "u", "e">>)
    /\ url.query["pool_size"] = StrV(<<"1", "2">>)
    /\ url.username # <<>>
    /\ connResult.opts["autocommit"] = BoolV(TRUE)
    /\ connResult.opts["pool_size"] = IntV(12)
    /\ connResult.opts["buffered"] = BoolV(TRUE)
    /\ connResult.opts["user"] = StrV(url.username)

\* C6: when a declared key holds a value that cannot be parsed as its
\* declared type, create_connect_args fails with an error and returns no
\* connect arguments, whatever the other keys hold.
C6_MalformedFails ==
    (connResult.status # "none" /\ ~AllParseable(InputOpts(url))) =>
        /\ connResult.status = "ValueError"
        /\ connResult.args = <<>>
        /\ connResult.opts = EmptyOpts

C6_Witness ==
    /\ connResult.status = "ValueError"
    /\ DOMAIN url.query = {"pool_size", "unknown_opt"}
    /\ url.query["pool_size"] = StrV(<<"f", "o", "o">>)

\* The driver is absent, or the lookup of its flag constants fails.
FlagLookupFails ==
    \/ dbapi = "none"
    \/ flagLookup.outcome # "ok"

\* C7: when the driver is absent or the lookup of its flag constants fails,
\* no error of the client-flag merge leaves create_connect_args: it returns
\* whenever the coercion succeeded, and the map returned is the one the
\* coercion and the buffered default produced, its client_flags entry
\* neither added nor changed.
C7_BestEffortMerge ==
    (connResult.status # "none" /\ FlagLookupFails) =>
        LET in == InputOpts(url)
            coerced == CoerceFrom(CoerceSchema, in, 1)
            out == connResult.opts
        IN /\ connResult.status # "Exception"
           /\ coerced.ok => connResult.status = "returned"
           /\ connResult.status = "returned" =>
                  /\ out = BufferedDefault(coerced.kw)
                  /\ ("client_flags" \in DOMAIN out) = ("client_flags" \in DOMAIN in)
                  /\ "client_flags" \in DOMAIN in =>
                         out["client_flags"] = in["client_flags"]

C7_Witness ==
    /\ connResult.status = "returned"
    /\ dbapi = "loaded"
    /\ flagLookup.outcome = "ImportError"
    /\ "client_flag" \in DOMAIN connResult.opts
    /\ "client_flags" \notin DOMAIN connResult.opts

\* Every bit of mask is set in x.
HasBits(x, mask) == BitOr(x, mask) = x

\* C9: whenever the driver's flag constants are available, the map returned
\* by create_connect_args has a client_flags value with the FOUND_ROWS bit,
\* which keeps every bit of the client flags the input supplied (the
\* coerced client_flag option, or client_flags of the URL query).
C9_FoundRowsMerged ==
    (connResult.status = "returned" /\ dbapi = "loaded" /\ flagLookup.outcome = "ok") =>
        LET in == InputOpts(url)
            out == connResult.opts
        IN /\ "client_flags" \in DOMAIN out
           /\ out["client_flags"].t = "int"
           /\ HasBits(out["client_flags"].n, FOUND_ROWS)
           /\ "client_flag" \in DOMAIN in =>
                  HasBits(out["client_flags"].n, IntParse(in["client_flag"].s))
           /\ ("client_flags" \in DOMAIN in /\ IntParseable(in["client_flags"].s)) =>
                  HasBits(out["client_flags"].n, IntParse(in["client_flags"].s))

\* The characters of text, each quote character doubled.
QuotesDoubled(text, q) ==
    Join([i \in 1..Len(text) |-> IF text[i] = q THEN <<q, q>> ELSE <<text[i]>>])

Occurrences(c, text) == Cardinality({i \in 1..Len(text) : text[i] = c})

\* C8: the percent-sign policy is consistent: _double_percents reads False
\* after any assignments to it, _escape_identifier doubles the quote
\* character and nothing else (no percent sign is added), and
\* visit_mod_binary gives the left text, ' % ', the right text.
C8_PercentPolicy ==
    /\ dpRead \in {"none", "False"}
    /\ sqlOp = "escape" =>
           /\ sqlOut = QuotesDoubled(sqlIn[1], prepQuote)
           /\ Occurrences("%", sqlOut) = Occurrences("%", sqlIn[1])
    /\ sqlOp = "mod" =>
           LET l == Len(sqlIn[1])
               r == Len(sqlIn[2])
           IN /\ Len(sqlOut) = l + r + 3
              /\ SubSeq(sqlOut, 1, l) = sqlIn[1]
              /\ SubSeq(sqlOut, l + 1, l + 3) = <<" ", "%", " ">>
              /\ SubSeq(sqlOut, l + 4, l + r + 3) = sqlIn[2]

C8_Witness ==
    /\ dpAssigned = "True"
    /\ dpRead = "False"
    /\ sqlOp = "mod"
    /\ sqlIn = <<<<"x">>, <<"y">>>>
    /\ sqlOut = <<"x", " ", "%", " ", "y">>

\* text begins with digits, a dot and digits.
HasVersionPrefix(text) ==
    \E i \in 1..Len(text) : \E j \in (i + 2)..Len(text) :
        /\ AllDigits(SubSeq(text, 1, i))
        /\ text[i + 1] = "."
        /\ AllDigits(SubSeq(text, i + 2, j))

RECURSIVE DottedText(_)
DottedText(tuple) ==
    IF Len(tuple) = 1 THEN IntToStr(tuple[1])
    ELSE IntToStr(tuple[1]) \o <<".">> \o DottedText(Tail(tuple))

\* r is the value the property has for the driver d: None when the driver
\* or its version is missing or does not begin with a version, else the
\* two or three numbers the version begins with, each read to its last
\* digit.
IsVersionOf(r, d) ==
    /\ r.some = (d.present /\ d.hasVersion /\ HasVersionPrefix(d.version))
    /\ r.some =>
           LET text == DottedText(r.tuple)
               n == Len(text)
               rest == SubSeq(d.version, Len(text) + 1, Len(d.version))
           IN /\ Len(r.tuple) \in {2, 3}
              /\ \A i \in 1..Len(r.tuple) : r.tuple[i] >= 0
              /\ n <= Len(d.version)
              /\ SubSeq(d.version, 1, n) = text
              /\ rest # <<>> => ~IsDigit(rest[1])
              /\ (Len(r.tuple) = 2 /\ Len(rest) >= 2) =>
                     ~(rest[1] = "." /\ IsDigit(rest[2]))

\* C10: with a driver version that does not change, concurrent unlocked
\* reads of _mysqlconnector_version_info all return one value, the parsed
\* version tuple or None, every later read returns that value too, and a
\* race costs no more than one parse per racing reader.
C10_ConsistentMemo ==
    /\ Cardinality(returned) <= 1
    /\ \A r \in returned : memo.set /\ memo.value = r /\ IsVersionOf(r, verDbapi)
    /\ parses <= NumThreads

C10_Witness ==
    /\ returned = {[some |-> TRUE, tuple |-> <<8, 0, 33>>]}
    /\ parses = 2
    /\ \A t \in Threads : reads[t] = MaxReads

====
